---- MODULE Spec2Model ----
(***************************************************************************)
(* Model of tg_alarm_bot's two polling consumers.                          *)
(*                                                                         *)
(*   - the event consumer (src/main.go: event_consumer.Consumer) polls     *)
(*     the Bot API through telegram.Processor, which keeps the update      *)
(*     offset (the "cursor");                                              *)
(*   - the source consumer (src/consumer/source-consumer) polls a public   *)
(*     channel page through sources/telegram.Source, which keeps the       *)
(*     seen map (the "SeenCache").                                         *)
(*                                                                         *)
(* A behaviour of Spec follows one poll task: `task` names the consumer    *)
(* whose Start() is running ("event", or the name of a configured source). *)
(* A behaviour of ConcSpec runs every task, the event consumer's and one   *)
(* per configured source, their steps interleaved: `task` is the task the  *)
(* scheduler is running.  There every Source is a record of `srcs` that    *)
(* refers to its seen map by the map's address in `heap`.                  *)
(*                                                                         *)
(* Strings that the code inspects are sequences of one-character strings   *)
(* (one element per Unicode code point; a code point outside ASCII is      *)
(* written by its name, "U+0416").  Errors are the chain of their          *)
(* messages, outermost first; the nil error is the empty chain.            *)
(***************************************************************************)
EXTENDS Integers, Sequences, FiniteSets

(***************************************************************************)
(* Bounds of the model.                                                    *)
(***************************************************************************)
\* update IDs the Bot API may report are 0..MaxID
MaxID == 1
\* the longest batch of updates / the longest page of candidates
MaxBatch == 2
\* the clock is read in hours; it stops advancing at MaxTime
MaxTime == 49
\* the longest batch / page when all tasks run
ConcBatch == 1
\* the hours that pass on the clock while calls of Fetch are running, over
\* a whole behaviour
MaxTicks == 1

(***************************************************************************)
(* Program constants.                                                      *)
(***************************************************************************)
\* main.go: batchSize
batchSize == 100
\* event_consumer.Start: time.Sleep(1 * time.Second), in seconds
EventIdle == 1
\* source_consumer.Start: time.Sleep(10 * time.Second), in seconds
SourceIdle == 10
\* sources/telegram.New: expiry: 24 * time.Hour, in hours
Expiry == 24
\* sources/telegram.filter: utf8.RuneCountInString(messageText) < 150
MaxRunes == 150

VARIABLES
    task,       \* the consumer whose Start() this behaviour follows
    \* ---- event consumer (cursor) ----
    offset,     \* Processor.offset
    cpc,        \* where event_consumer.Start is: "fetch", "sleep", "handle", "next"
    cupdates,   \* the updates this turn's Fetch got from the Bot API
    cevents,    \* the batch Start holds (this turn's Fetch's result)
    cidx,       \* handleEvents: index of the next event to process
    cres,       \* outcome of this turn's Fetch: "none", "err", "empty", "items"
    cfail,      \* the failure of the getUpdates call behind this turn's Fetch
    cslept,     \* seconds slept in this turn of the loop
    cdone,      \* the Process calls made in this turn of the loop
    cpre,       \* offset when this turn's Fetch was called
    \* ---- source consumer (window) ----
    now,        \* the clock as the last Fetch last read it (hours)
    scalled,    \* the clock when this turn's Fetch began
    startTime,  \* Source.startTime
    seen,       \* Source.seen: a function from the ids it holds to times
    spc,        \* where source_consumer.Start is
    spage,      \* the candidates of the page this turn's Fetch parsed
    smsgs,      \* the batch Start holds (this turn's Fetch's result)
    sidx,       \* handleMessages: index of the next message to process
    sres,       \* outcome of this turn's Fetch
    sfail,      \* the failure of the page retrieval or parse behind this turn's Fetch
    sslept,     \* seconds slept in this turn of the loop
    sdone,      \* the Process calls made in this turn of the loop
    spre,       \* seen when this turn's Fetch was called
    accepted,   \* history: id -> the time a Fetch last returned it
    \* ---- all tasks running ----
    heap,       \* the maps made by make(map[string]time.Time), by address
    srcs,       \* the Sources constructed, by name: the address of seen,
                \* startTime, and where the consumer polling the Source is
                \* (pc), the batch it holds (msgs) and its index in it (idx)
    wall,       \* the clock (hours)
    \* ---- the clock ----
    ticks       \* the hours that have passed while calls of Fetch were running

cvars == <<offset, cpc, cupdates, cevents, cidx, cres, cfail, cslept, cdone, cpre>>
svars == <<now, scalled, startTime, seen, spc, spage, smsgs, sidx, sres, sfail, sslept, sdone,
           spre, accepted>>
ivars == <<heap, srcs, wall>>
vars == <<task, cvars, svars, ivars, ticks>>

(***************************************************************************)
(* Helpers.                                                                *)
(***************************************************************************)
Min(a, b) == IF a <= b THEN a ELSE b

RECURSIVE SeqsUpTo(_, _)
\* all sequences over S of length at most n
SeqsUpTo(S, n) ==
    IF n = 0 THEN {<<>>}
    ELSE LET shorter == SeqsUpTo(S, n - 1)
         IN  shorter \cup {Append(s, x) : s \in {t \in shorter : Len(t) = n - 1}, x \in S}

\* lib/e.Wrap: "msg: err"
Wrap(msg, err) == <<msg>> \o err

NoError == <<>>

(***************************************************************************)
(* Bot API client (src/client/telegram/telegram.go).                       *)
(***************************************************************************)
\* events.Type: Unknown = iota, Message
Unknown == 0
Message == 1

\* *IncomingMessage: nil, or a message with its text, sender and chat
NilMessage == [nil |-> TRUE, Text |-> "", Username |-> "", ChatID |-> 0]
SomeMessage == [nil |-> FALSE, Text |-> "hello", Username |-> "bob", ChatID |-> 7]

\* telegram.Update: the updates the Bot API may report
UpdateSet == [ID : 0..MaxID, Message : {NilMessage, SomeMessage}]

\* the longest batch / page the environment hands out in this behaviour
Longest == IF DOMAIN srcs = {} THEN MaxBatch ELSE ConcBatch

\* what the transport may answer to getUpdates(offset, limit): a transport
\* failure, a body that does not decode, or any list of at most limit
\* updates, in any order
TransportFailed == <<"transport">>
DecodeFailed == <<"decode">>
UpdatesAnswers(limit) ==
    {[err |-> e, result |-> <<>>] : e \in {Wrap("can't do request", TransportFailed), DecodeFailed}}
    \cup {[err |-> NoError, result |-> us] : us \in SeqsUpTo(UpdateSet, Min(limit, Longest))}

\* Client.Updates: the decoded result, or the failure wrapped
ClientUpdates(answer) ==
    IF answer.err /= NoError
    THEN [result |-> <<>>, err |-> Wrap("can't get updates", answer.err)]
    ELSE [result |-> answer.result, err |-> NoError]

\* Client.SendMessage(chatID, text): the request made and the error returned
ClientSendMessage(chatID, text, delivered) ==
    [sent |-> <<[chat |-> chatID, text |-> text]>>,
     err  |-> IF delivered THEN NoError
              ELSE Wrap("can't send message", Wrap("can't do request", TransportFailed))]

(***************************************************************************)
(* telegram.Processor (src/main.go, package events/telegram).              *)
(***************************************************************************)
NilMeta == [nil |-> TRUE, ChatID |-> 0, Username |-> ""]

ErrUnknownEventType == <<"unknown event type">>
ErrUnknownMetaType == <<"unknown meta type">>

fetchType(u) == IF u.Message.nil THEN Unknown ELSE Message

fetchText(u) == IF u.Message.nil THEN "" ELSE u.Message.Text

\* utoe: Update to Event
utoe(u) ==
    [Type |-> fetchType(u),
     Text |-> fetchText(u),
     Meta |-> IF fetchType(u) = Message
              THEN [nil |-> FALSE, ChatID |-> u.Message.ChatID, Username |-> u.Message.Username]
              ELSE NilMeta]

\* p.offset = updates[len(updates)-1].ID + 1
NextOffset(updates) == updates[Len(updates)].ID + 1

\* ProcessorFetch with the bug "a failed fetch steps over one update"
ProcessorFetchSkipsOnError(off, answer) ==
    LET got == ClientUpdates(answer)
    IN  IF got.err /= NoError
        THEN [events |-> <<>>, err |-> Wrap("can't get events", got.err), offset |-> off + 1]
        ELSE IF Len(got.result) = 0
        THEN [events |-> <<>>, err |-> NoError, offset |-> off]
        ELSE [events |-> [i \in 1..Len(got.result) |-> utoe(got.result[i])],
              err    |-> NoError,
              offset |-> NextOffset(got.result)]

\* Processor.Fetch on the client's answer: the events, the error and the
\* offset it leaves
ProcessorFetch(off, answer) ==
    LET got == ClientUpdates(answer)
    IN  IF got.err /= NoError
        THEN [events |-> <<>>, err |-> Wrap("can't get events", got.err), offset |-> off]
        ELSE IF Len(got.result) = 0
        THEN [events |-> <<>>, err |-> NoError, offset |-> off]
        ELSE [events |-> [i \in 1..Len(got.result) |-> utoe(got.result[i])],
              err    |-> NoError,
              offset |-> NextOffset(got.result)]

\* meta: the event's Meta cast to Meta
meta(event) ==
    IF event.Meta.nil
    THEN [res |-> NilMeta, err |-> Wrap("cant't get meta", ErrUnknownMetaType)]
    ELSE [res |-> event.Meta, err |-> NoError]

processMessage(event, delivered) ==
    LET m == meta(event)
    IN  IF m.err /= NoError
        THEN [sent |-> <<>>, err |-> Wrap("can't process message", m.err)]
        ELSE ClientSendMessage(m.res.ChatID, "This bot does not interact directly.", delivered)

\* Processor.Process: the sends made and the error returned
ProcessorProcess(event, delivered) ==
    IF event.Type = Message
    THEN processMessage(event, delivered)
    ELSE [sent |-> <<>>, err |-> Wrap("can't process event", ErrUnknownEventType)]

(***************************************************************************)
(* event_consumer.Consumer (src/main.go, package event_consumer).          *)
(***************************************************************************)
\* EventAfterFetch with the bug "Start returns the fetch error"
EventAfterFetchReturns(err, n) ==
    IF err /= NoError THEN "returned"
    ELSE IF n = 0 THEN "sleep"
    ELSE "handle"

\* EventAfterFetch with the bug "no sleep on an empty batch"
EventAfterFetchNoIdle(err, n) ==
    IF err /= NoError THEN "next"
    ELSE IF n = 0 THEN "next"
    ELSE "handle"

\* Start: where the loop goes with Fetch's result ("next" is the continue
\* that ends a turn of the for loop)
EventAfterFetch(err, n) ==
    IF err /= NoError THEN "next"
    ELSE IF n = 0 THEN "sleep"
    ELSE "handle"

\* EventAfterProcess with the bug "handleEvents returns the Process error"
EventAfterProcessAborts(i, n, err) ==
    IF err /= NoError THEN [pc |-> "next", idx |-> 0]
    ELSE IF i < n THEN [pc |-> "handle", idx |-> i + 1]
    ELSE [pc |-> "next", idx |-> 0]

\* handleEvents: where the loop goes after Process returned err for event i
\* of n (handleEvents returns nil after the last one, and Start loops)
EventAfterProcess(i, n, err) ==
    IF i < n THEN [pc |-> "handle", idx |-> i + 1]
    ELSE [pc |-> "next", idx |-> 0]

\* Start calls c.fetcher.Fetch(c.batchSize)
EventFetch ==
    /\ task = "event"
    /\ cpc = "fetch"
    /\ \E answer \in UpdatesAnswers(batchSize) :
         LET r == ProcessorFetch(offset, answer)
         IN  /\ offset' = r.offset
             /\ cupdates' = answer.result
             /\ cfail' = answer.err
             /\ cevents' = r.events
             /\ cres' = IF r.err /= NoError THEN "err"
                        ELSE IF Len(r.events) = 0 THEN "empty" ELSE "items"
             /\ cpc' = EventAfterFetch(r.err, Len(r.events))
             /\ cidx' = IF EventAfterFetch(r.err, Len(r.events)) = "handle" THEN 1 ELSE 0
    /\ cpre' = offset
    /\ cslept' = 0
    /\ cdone' = <<>>
    /\ UNCHANGED <<task, svars, ivars, ticks>>

\* Start: time.Sleep(1 * time.Second); continue
EventSleep ==
    /\ task = "event"
    /\ cpc = "sleep"
    /\ cslept' = cslept + EventIdle
    /\ cpc' = "next"
    /\ UNCHANGED <<task, offset, cupdates, cevents, cidx, cres, cfail, cdone, cpre, svars, ivars, ticks>>

\* handleEvents: one turn of the range loop
EventHandle ==
    /\ task = "event"
    /\ cpc = "handle"
    /\ \E delivered \in BOOLEAN :
         LET r == ProcessorProcess(cevents[cidx], delivered)
             to == EventAfterProcess(cidx, Len(cevents), r.err)
         IN  /\ cdone' = Append(cdone, [item |-> cevents[cidx], sent |-> r.sent, err |-> r.err])
             /\ cpc' = to.pc
             /\ cidx' = to.idx
    /\ UNCHANGED <<task, offset, cupdates, cevents, cres, cfail, cslept, cpre, svars, ivars, ticks>>

\* Start: the for loop begins its next turn; the turn's locals are gone
EventContinue ==
    /\ task = "event"
    /\ cpc = "next"
    /\ cpc' = "fetch"
    /\ cupdates' = <<>>
    /\ cevents' = <<>>
    /\ cidx' = 0
    /\ cres' = "none"
    /\ cfail' = NoError
    /\ cslept' = 0
    /\ cdone' = <<>>
    /\ cpre' = offset
    /\ UNCHANGED <<task, offset, svars, ivars, ticks>>

EventNext == EventFetch \/ EventSleep \/ EventHandle \/ EventContinue

(***************************************************************************)
(* sources/telegram.Source (src/sources/telegram/telegram.go).             *)
(***************************************************************************)
\* the sources of the configuration, by name: "alerts" searches the literal
\* pattern ALERT and removes ["[AD] "]; "ads" searches the literal pattern
\* AD and removes ["D] A", "[AD] "]
SourceNames == {"alerts", "ads"}
\* Source.SearchRegexp of the source this behaviour polls
SearchRegexp ==
    IF task = "ads" THEN <<"A", "D">> ELSE <<"A", "L", "E", "R", "T">>
\* Source.PhrasesToRemove of the source this behaviour polls
PhrasesToRemove ==
    IF task = "ads"
    THEN << <<"D", "]", " ", "A">>, <<"[", "A", "D", "]", " ">> >>
    ELSE << <<"[", "A", "D", "]", " ">> >>

\* message texts a page may carry
TextAd == <<"[", "A", "D", "]", " ", "A", "L", "E", "R", "T", ":", " ", "f", "i", "r", "e">>
TextPlain == <<"f", "i", "r", "e">>
\* "[AD] ", 138 times "x", "ADALERT": 150 code points, 145 once cleaned
TextLong ==
    <<"[", "A", "D", "]", " ">> \o [i \in 1..(MaxRunes - 12) |-> "x"]
        \o <<"A", "D", "A", "L", "E", "R", "T">>
\* " [AD] ", 133 times the two-byte U+0416, "ALERT[AD] ": 149 code points
\* in 282 bytes
TextWide ==
    <<" ", "[", "A", "D", "]", " ">> \o [i \in 1..(MaxRunes - 17) |-> "U+0416"]
        \o <<"A", "L", "E", "R", "T", "[", "A", "D", "]", " ">>

\* data-post values
PostIDs == {"ch/1", "ch/2"}

\* the datetime attribute of a message: absent, not RFC 3339, or an RFC 3339
\* instant (hour h on the model's clock)
NoDatetime == [fmt |-> "absent", h |-> 0]
BadDatetime == [fmt |-> "text", h |-> 0]
Datetime(h) == [fmt |-> "rfc3339", h |-> h]

\* a .tgme_widget_message element: its data-post, the text of its first
\* message text, whether it holds a reply block and the message text found
\* in the element after the reply block, and its datetime attribute
Candidate(id, text, reply, replyText, dt) ==
    [id |-> id, text |-> text, reply |-> reply, replyText |-> replyText, datetime |-> dt]

\* the messages a page may hold: an acceptable one under each id (posted
\* at startTime itself, the earliest instant filter lets through), and under
\* the first id the messages that differ from it in one respect
Candidates ==
    {Candidate(id, TextAd, FALSE, <<>>, Datetime(0)) : id \in PostIDs}
    \cup {Candidate("ch/1", t, FALSE, <<>>, Datetime(0)) :
            t \in {TextPlain, TextLong, TextWide}}
    \cup {Candidate("ch/1", TextAd, FALSE, <<>>, dt) :
            dt \in {NoDatetime, BadDatetime, Datetime(-1)}}
    \cup {Candidate("ch/1", TextAd, TRUE, TextPlain, Datetime(0)),
          Candidate("ch/1", TextPlain, TRUE, TextAd, Datetime(0))}

\* the messages the environment puts on pages in this behaviour: when all
\* tasks run, the acceptable message and the one with no matching text
Offered ==
    IF DOMAIN srcs = {} THEN Candidates
    ELSE {c \in Candidates : c.id = "ch/1" /\ c.text \in {TextAd, TextPlain}
                               /\ ~c.reply /\ c.datetime = Datetime(0)}

\* what http.Get and the parse of the body may give: a failed request, a
\* body that cannot be read, or a document with at most MaxBatch messages
PageAnswers ==
    {[getErr |-> TransportFailed, readErr |-> NoError, page |-> <<>>],
     [getErr |-> NoError, readErr |-> <<"read">>, page |-> <<>>]}
    \cup {[getErr |-> NoError, readErr |-> NoError, page |-> p] :
            p \in SeqsUpTo(Offered, Longest)}

\* time.Parse(time.RFC3339, postTime)
ParseTime(dt) ==
    IF dt.fmt = "rfc3339" THEN [t |-> dt.h, err |-> NoError]
    ELSE [t |-> 0, err |-> <<"parsing time">>]

\* t.Before(u)
Before(t, u) == t < u

\* time.Since(t), the clock reading clock
Since(t, clock) == clock - t

\* what the k-th call of time.Now or time.Since within one Fetch reads,
\* clocks being the values the clock shows to these calls in turn (and the
\* last of them to any call beyond)
Reading(clocks, k) == clocks[IF k <= Len(clocks) THEN k ELSE Len(clocks)]

\* what the clock showed when a call last read it, next being the number
\* of its next reading (when the call began, if it made no reading)
LastRead(clocks, next) == Reading(clocks, IF next > 1 THEN next - 1 ELSE 1)

\* the UTF-8 encoding of a code point, in bytes
Utf8Width(c) == IF c = "U+0416" THEN 2 ELSE 1

\* RuneCountInString with the bug "len(messageText): bytes are counted"
RuneCountAsBytes(text) ==
    Len(text) + Cardinality({i \in 1..Len(text) : Utf8Width(text[i]) = 2})

\* utf8.RuneCountInString
RuneCountInString(text) == Len(text)

\* strings.HasPrefix(text[i:], phrase), i counted from 1
HasPrefixAt(text, i, phrase) ==
    /\ i + Len(phrase) - 1 <= Len(text)
    /\ \A k \in 1..Len(phrase) : text[i + k - 1] = phrase[k]

\* regexp.MustCompile(pattern).MatchString(text), for a literal pattern
MatchString(pattern, text) ==
    \E i \in 1..(Len(text) + 1) : HasPrefixAt(text, i, pattern)

RECURSIVE ReplaceAllFrom(_, _, _)
\* strings.ReplaceAll(text[i:], phrase, ""): the text up to the first
\* occurrence of phrase at or after i, then the same from behind it
ReplaceAllFrom(text, i, phrase) ==
    LET found == {j \in i..Len(text) : HasPrefixAt(text, j, phrase)}
    IN  IF Len(phrase) = 0 \/ found = {} THEN SubSeq(text, i, Len(text))
        ELSE LET j == CHOOSE x \in found : \A y \in found : x <= y
             IN  SubSeq(text, i, j - 1) \o ReplaceAllFrom(text, j + Len(phrase), phrase)

\* ReplaceAll with the bug "only the first occurrence is removed"
ReplaceFirst(text, phrase) ==
    LET found == {j \in 1..Len(text) : HasPrefixAt(text, j, phrase)}
    IN  IF Len(phrase) = 0 \/ found = {} THEN text
        ELSE LET j == CHOOSE x \in found : \A y \in found : x <= y
             IN  SubSeq(text, 1, j - 1) \o SubSeq(text, j + Len(phrase), Len(text))

\* strings.ReplaceAll(text, phrase, "")
ReplaceAll(text, phrase) == ReplaceAllFrom(text, 1, phrase)

\* unicode.IsSpace, on the characters the model uses
IsSpace(c) == c \in {" ", "\t", "\n", "\r"}

\* strings.TrimSpace
TrimSpace(text) ==
    LET keep == {i \in 1..Len(text) : ~IsSpace(text[i])}
    IN  IF keep = {} THEN <<>>
        ELSE LET first == CHOOSE i \in keep : \A j \in keep : i <= j
                 last  == CHOOSE i \in keep : \A j \in keep : j <= i
             IN  SubSeq(text, first, last)

RECURSIVE cleanFrom(_, _, _)
\* cleanMessage's loop over phrases[k:]
cleanFrom(text, phrases, k) ==
    IF k > Len(phrases) THEN text
    ELSE cleanFrom(ReplaceAll(text, phrases[k]), phrases, k + 1)

\* Source.cleanMessage
cleanMessage(text) == TrimSpace(cleanFrom(text, PhrasesToRemove, 1))

\* the map s.seen: lookup, store, delete
Exists(m, id) == id \in DOMAIN m
Store(m, id, t) == [x \in DOMAIN m \cup {id} |-> IF x = id THEN t ELSE m[x]]
Delete(m, ids) == [x \in DOMAIN m \ ids |-> m[x]]
EmptyMap == [x \in {} |-> 0]

\* filter: the text the checks read (the reply block's next element wins)
messageText(c) == IF c.reply THEN c.replyText ELSE c.text

\* SkipByTime with the bug "startTime is not compared"
SkipByTimeParseOnly(c, start) == ParseTime(c.datetime).err /= NoError

\* filter: the timestamp check; TRUE when the candidate is skipped
SkipByTime(c, start) ==
    LET parsed == ParseTime(c.datetime)
    IN  parsed.err /= NoError \/ Before(parsed.t, start)

\* TextPasses with the bug "the checks read the cleaned text"
TextPassesCleaned(text) ==
    /\ MatchString(SearchRegexp, cleanMessage(text))
    /\ RuneCountInString(cleanMessage(text)) < MaxRunes

\* filter: rx.MatchString(messageText) && utf8.RuneCountInString(messageText) < 150
TextPasses(text) ==
    MatchString(SearchRegexp, text) /\ RuneCountInString(text) < MaxRunes

\* IsNew with the bug "the expiry comparison is reversed"
IsNewReversed(m, id, clock) == ~Exists(m, id) \/ Since(m[id], clock) < Expiry

\* IsNew with the bug "an id is new only while the map holds no entry"
IsNewOnlyAbsent(m, id, clock) == ~Exists(m, id)

\* filter: !exists || time.Since(s.seen[messageID]) > s.expiry
IsNew(m, id, clock) == ~Exists(m, id) \/ Since(m[id], clock) > Expiry

RECURSIVE filterFrom(_, _, _, _, _, _, _)
\* filter's Each over page[i:]: the messages appended, the map left and
\* the number of the clock's next reading.  A candidate that passes the
\* timestamp, pattern and length checks reads the clock in time.Since when
\* its id has an entry (k), and again in time.Now when it is accepted.
filterFrom(page, i, m, messages, clocks, k, start) ==
    IF i > Len(page) THEN [messages |-> messages, seen |-> m, next |-> k]
    ELSE LET c == page[i]
             text == messageText(c)
         IN  IF ~SkipByTime(c, start) /\ TextPasses(text)
             THEN LET k2 == IF Exists(m, c.id) THEN k + 1 ELSE k
                  IN  IF IsNew(m, c.id, Reading(clocks, k))
                      THEN filterFrom(page, i + 1, Store(m, c.id, Reading(clocks, k2)),
                                      Append(messages,
                                             [ID |-> c.id, Text |-> cleanMessage(text)]),
                                      clocks, k2 + 1, start)
                      ELSE filterFrom(page, i + 1, m, messages, clocks, k2, start)
             ELSE filterFrom(page, i + 1, m, messages, clocks, k, start)

\* filter with the bug "every element read is recorded in seen"
filterRecordsAll(answer, m, clocks, start) ==
    IF answer.readErr /= NoError
    THEN [messages |-> <<>>, seen |-> m, err |-> answer.readErr, next |-> 1]
    ELSE LET r == filterFrom(answer.page, 1, m, <<>>, clocks, 1, start)
             read == {answer.page[i].id : i \in 1..Len(answer.page)}
         IN  [messages |-> r.messages,
              seen |-> [x \in DOMAIN r.seen \cup read |->
                          IF x \in read THEN Reading(clocks, 1) ELSE r.seen[x]],
              err |-> NoError, next |-> r.next]

\* Source.filter on the body read: the messages, the map left, the error,
\* and the number of the clock's next reading
filter(answer, m, clocks, start) ==
    IF answer.readErr /= NoError
    THEN [messages |-> <<>>, seen |-> m, err |-> answer.readErr, next |-> 1]
    ELSE LET r == filterFrom(answer.page, 1, m, <<>>, clocks, 1, start)
         IN  [messages |-> r.messages, seen |-> r.seen, err |-> NoError, next |-> r.next]

\* the places of order at which the range over m visits an entry; order is
\* the order in which the range comes to the ids (it names every key of m
\* once)
Visits(m, order) == {j \in 1..Len(order) : Exists(m, order[j])}

\* the number of the reading made for the entry visited at place j, the
\* range's first reading being number k: one reading per entry visited
ReadAt(m, order, j, k) == k + Cardinality({i \in Visits(m, order) : i < j})

\* Sweep with the bug ">= instead of >"
SweepAtExpiry(m, order, clocks, k) ==
    Delete(m, {order[j] : j \in {x \in Visits(m, order) :
                 Since(m[order[x]], Reading(clocks, ReadAt(m, order, x, k))) >= Expiry}})

\* Sweep with the bug "nothing is deleted"
SweepKeepsAll(m, order, clocks, k) == m

\* Fetch's sweep: the range over s.seen deletes every id with
\* time.Since(timestamp) > s.expiry, reading the clock for each entry
Sweep(m, order, clocks, k) ==
    Delete(m, {order[j] : j \in {x \in Visits(m, order) :
                 Since(m[order[x]], Reading(clocks, ReadAt(m, order, x, k))) > Expiry}})

\* SourceFetch with the bug "the sweep runs before the errors are checked"
SourceFetchSweepsFirst(answer, m, clocks, order, start) ==
    IF answer.getErr /= NoError
    THEN [messages |-> <<>>, seen |-> Sweep(m, order, clocks, 1),
          err |-> Wrap("can't fetch data from telegram source", answer.getErr),
          next |-> 1 + Cardinality(Visits(m, order))]
    ELSE LET r == filter(answer, m, clocks, start)
         IN  IF r.err /= NoError
             THEN [messages |-> <<>>, seen |-> Sweep(r.seen, order, clocks, r.next),
                   err |-> Wrap("can't fetch data from telegram source", r.err),
                   next |-> r.next + Cardinality(Visits(r.seen, order))]
             ELSE [messages |-> r.messages,
                   seen |-> Sweep(r.seen, order, clocks, r.next), err |-> NoError,
                   next |-> r.next + Cardinality(Visits(r.seen, order))]

\* Source.Fetch, the clock showing clocks to its readings in turn and the
\* range over s.seen visiting the ids in the order of order: the messages,
\* the error, the map left, and the number of the clock's next reading
SourceFetch(answer, m, clocks, order, start) ==
    IF answer.getErr /= NoError
    THEN [messages |-> <<>>, seen |-> m,
          err |-> Wrap("can't fetch data from telegram source", answer.getErr),
          next |-> 1]
    ELSE LET r == filter(answer, m, clocks, start)
         IN  IF r.err /= NoError
             THEN [messages |-> <<>>, seen |-> r.seen,
                   err |-> Wrap("can't fetch data from telegram source", r.err),
                   next |-> r.next]
             ELSE [messages |-> r.messages,
                   seen |-> Sweep(r.seen, order, clocks, r.next), err |-> NoError,
                   next |-> r.next + Cardinality(Visits(r.seen, order))]

\* Source.ToChannel
ToChannel == 42

\* Source.Process
SourceProcess(message, delivered) == ClientSendMessage(ToChannel, message.Text, delivered)

(***************************************************************************)
(* source_consumer.Consumer (src/consumer/source-consumer).                *)
(***************************************************************************)
\* SourceAfterFetch with the bug "sleep after a failed fetch too"
SourceAfterFetchSleepsOnError(err, n) ==
    IF err /= NoError \/ n = 0 THEN "sleep"
    ELSE "handle"

\* Start: where the loop goes with Fetch's result
SourceAfterFetch(err, n) ==
    IF err /= NoError THEN "next"
    ELSE IF n = 0 THEN "sleep"
    ELSE "handle"

\* SourceAfterProcess with the bug "a failed message is processed again"
SourceAfterProcessRetries(i, n, err) ==
    IF err /= NoError THEN [pc |-> "handle", idx |-> i]
    ELSE IF i < n THEN [pc |-> "handle", idx |-> i + 1]
    ELSE [pc |-> "next", idx |-> 0]

\* handleMessages: where the loop goes after Process returned err for
\* message i of n
SourceAfterProcess(i, n, err) ==
    IF i < n THEN [pc |-> "handle", idx |-> i + 1]
    ELSE [pc |-> "next", idx |-> 0]

\* hours that may pass on the clock between the last reading of one Fetch
\* and the first reading of the next (when all tasks run: none, or enough for
\* an entry to expire)
ClockSteps == IF DOMAIN srcs = {} THEN {0, Expiry, Expiry + 1} ELSE {0, Expiry + 1}

\* the most readings of the clock one Fetch makes: two for each candidate
\* (time.Since, time.Now) and one for each entry the sweep visits
MaxReads == 2 * MaxBatch + Cardinality(PostIDs)

\* the orders in which range s.seen may come to the ids
Orders ==
    {o \in [1..Cardinality(PostIDs) -> PostIDs] :
        \A i, j \in 1..Cardinality(PostIDs) : i /= j => o[i] /= o[j]}

\* how far the clock may have moved on at each reading of one Fetch: it
\* never goes back
Spans ==
    {s \in [1..MaxReads -> 0..MaxTicks] :
        s[1] = 0 /\ \A k \in 1..(MaxReads - 1) : s[k] <= s[k + 1]}

\* what the clock shows to the readings of a Fetch that begins at clock
\* reading from, when it moves on as span says
ClockReadings(from, span) == [k \in 1..MaxReads |-> from + span[k]]

\* Start calls c.fetcher.Fetch().  d hours have passed on the clock since
\* it was last read; the clock moves on while Fetch runs, and
\* each time.Since and time.Now reads what it shows then.
MsgFetch ==
    /\ task \in SourceNames
    /\ spc = "fetch"
    /\ \E d \in ClockSteps, answer \in PageAnswers, order \in Orders, span \in Spans :
         /\ ticks + span[MaxReads] <= MaxTicks
         /\ now + d + span[MaxReads] <= MaxTime
         /\ \E r \in {SourceFetch(answer, seen, ClockReadings(now + d, span), order,
                                  startTime)} :
            LET clocks == ClockReadings(now + d, span)
                to == SourceAfterFetch(r.err, Len(r.messages))
                ids == {r.messages[i].ID : i \in 1..Len(r.messages)}
            IN  /\ scalled' = clocks[1]
                /\ now' = LastRead(clocks, r.next)
                /\ ticks' = ticks + (LastRead(clocks, r.next) - clocks[1])
                /\ seen' = r.seen
                /\ spage' = answer.page
                /\ sfail' = answer.getErr \o answer.readErr
                /\ smsgs' = r.messages
                /\ sres' = IF r.err /= NoError THEN "err"
                           ELSE IF Len(r.messages) = 0 THEN "empty" ELSE "items"
                /\ spc' = to
                /\ sidx' = IF to = "handle" THEN 1 ELSE 0
                /\ accepted' = [id \in DOMAIN accepted \cup ids |->
                                  IF id \notin ids THEN accepted[id]
                                  ELSE IF id \in DOMAIN r.seen THEN r.seen[id]
                                  ELSE LastRead(clocks, r.next)]
    /\ spre' = seen
    /\ sslept' = 0
    /\ sdone' = <<>>
    /\ UNCHANGED <<task, startTime, cvars, ivars>>

\* Start: time.Sleep(10 * time.Second); continue
MsgSleep ==
    /\ task \in SourceNames
    /\ spc = "sleep"
    /\ sslept' = sslept + SourceIdle
    /\ spc' = "next"
    /\ UNCHANGED <<task, now, scalled, startTime, seen, spage, smsgs, sidx, sres, sfail,
                   sdone, spre, accepted, cvars, ivars, ticks>>

\* handleMessages: one turn of the range loop
MsgHandle ==
    /\ task \in SourceNames
    /\ spc = "handle"
    /\ \E delivered \in BOOLEAN :
         LET r == SourceProcess(smsgs[sidx], delivered)
             to == SourceAfterProcess(sidx, Len(smsgs), r.err)
         IN  /\ sdone' = Append(sdone, [item |-> smsgs[sidx], sent |-> r.sent, err |-> r.err])
             /\ spc' = to.pc
             /\ sidx' = to.idx
    /\ UNCHANGED <<task, now, scalled, startTime, seen, spage, smsgs, sres, sfail, sslept,
                   spre, accepted, cvars, ivars, ticks>>

\* Start: the for loop begins its next turn; the turn's locals are gone
MsgContinue ==
    /\ task \in SourceNames
    /\ spc = "next"
    /\ spc' = "fetch"
    /\ spage' = <<>>
    /\ smsgs' = <<>>
    /\ sidx' = 0
    /\ sres' = "none"
    /\ sfail' = NoError
    /\ sslept' = 0
    /\ sdone' = <<>>
    /\ spre' = seen
    /\ scalled' = now
    /\ UNCHANGED <<task, now, startTime, seen, accepted, cvars, ivars, ticks>>

SourceNext == MsgFetch \/ MsgSleep \/ MsgHandle \/ MsgContinue

(***************************************************************************)
(* The program.                                                            *)
(***************************************************************************)
\* telegram.New(client) and event_consumer.New; sources/telegram.New at
\* clock reading 0 and source_consumer.New
Constructed ==
    /\ offset = 0
    /\ cpc = "fetch"
    /\ cupdates = <<>>
    /\ cevents = <<>>
    /\ cidx = 0
    /\ cres = "none"
    /\ cfail = NoError
    /\ cslept = 0
    /\ cdone = <<>>
    /\ cpre = 0
    /\ now = 0
    /\ scalled = 0
    /\ startTime = 0
    /\ seen = EmptyMap
    /\ spc = "fetch"
    /\ spage = <<>>
    /\ smsgs = <<>>
    /\ sidx = 0
    /\ sres = "none"
    /\ sfail = NoError
    /\ sslept = 0
    /\ sdone = <<>>
    /\ spre = EmptyMap
    /\ accepted = EmptyMap

\* one task runs: the event consumer's, or that of one configured source
Init ==
    /\ task \in {"event"} \cup SourceNames
    /\ Constructed
    /\ heap = EmptyMap
    /\ srcs = EmptyMap
    /\ wall = 0
    /\ ticks = 0

Next == EventNext \/ SourceNext

Spec == Init /\ [][Next]_vars

(***************************************************************************)
(* All tasks running: the event consumer's and one per configured source.  *)
(***************************************************************************)
\* NewSource with the bug "seen is one map that every Source refers to"
NewSourceSharedMap(h, clock) ==
    [seen |-> 1, startTime |-> clock,
     heap |-> [x \in DOMAIN h \cup {1} |-> IF x \in DOMAIN h THEN h[x] ELSE EmptyMap]]

\* sources/telegram.New at clock reading clock, the maps made so far being
\* h: make(map[string]time.Time) gives an empty map at an address not in use
NewSource(h, clock) ==
    LET a == Cardinality(DOMAIN h) + 1
    IN  [seen |-> a, startTime |-> clock,
         heap |-> [x \in DOMAIN h \cup {a} |-> IF x = a THEN EmptyMap ELSE h[x]]]

RECURSIVE NewSources(_, _)
\* a Source for each of names, one after the other, and the consumer that
\* polls it, about to fetch
NewSources(names, h) ==
    IF names = {} THEN [heap |-> h, srcs |-> EmptyMap]
    ELSE LET n == CHOOSE x \in names : TRUE
             s == NewSource(h, 0)
             rest == NewSources(names \ {n}, s.heap)
         IN  [heap |-> rest.heap,
              srcs |-> [x \in DOMAIN rest.srcs \cup {n} |->
                          IF x = n
                          THEN [seen |-> s.seen, startTime |-> s.startTime,
                                pc |-> "fetch", msgs |-> <<>>, idx |-> 0]
                          ELSE rest.srcs[x]]]

\* the tasks: the event consumer's, and one per configured source
Tasks == {"event"} \cup SourceNames

\* s.seen of the Source named n
SeenOf(n) == heap[srcs[n].seen]

\* Start of the consumer polling Source n calls c.fetcher.Fetch(); d hours
\* have passed on the clock since it was last read, and it moves on while
\* Fetch runs
SrcFetch(n) ==
    /\ task = n
    /\ srcs[n].pc = "fetch"
    /\ \E d \in ClockSteps, answer \in PageAnswers, order \in Orders, span \in Spans :
         /\ ticks + span[MaxReads] <= MaxTicks
         /\ wall + d + span[MaxReads] <= MaxTime
         /\ \E r \in {SourceFetch(answer, SeenOf(n), ClockReadings(wall + d, span), order,
                                  srcs[n].startTime)} :
            LET clocks == ClockReadings(wall + d, span)
                to == SourceAfterFetch(r.err, Len(r.messages))
            IN  /\ wall' = LastRead(clocks, r.next)
                /\ ticks' = ticks + (LastRead(clocks, r.next) - clocks[1])
                /\ heap' = [heap EXCEPT ![srcs[n].seen] = r.seen]
                /\ srcs' = [srcs EXCEPT ![n].pc = to,
                                        ![n].msgs = r.messages,
                                        ![n].idx = IF to = "handle" THEN 1 ELSE 0]
    /\ UNCHANGED <<task, cvars, svars>>

\* Start: time.Sleep(10 * time.Second); continue
SrcSleep(n) ==
    /\ task = n
    /\ srcs[n].pc = "sleep"
    /\ srcs' = [srcs EXCEPT ![n].pc = "next"]
    /\ UNCHANGED <<task, heap, wall, cvars, svars, ticks>>

\* handleMessages: one turn of the range loop
SrcHandle(n) ==
    /\ task = n
    /\ srcs[n].pc = "handle"
    /\ \E delivered \in BOOLEAN :
         LET r == SourceProcess(srcs[n].msgs[srcs[n].idx], delivered)
             to == SourceAfterProcess(srcs[n].idx, Len(srcs[n].msgs), r.err)
         IN  srcs' = [srcs EXCEPT ![n].pc = to.pc, ![n].idx = to.idx]
    /\ UNCHANGED <<task, heap, wall, cvars, svars, ticks>>

\* Start: the for loop begins its next turn; the turn's locals are gone
SrcContinue(n) ==
    /\ task = n
    /\ srcs[n].pc = "next"
    /\ srcs' = [srcs EXCEPT ![n].pc = "fetch", ![n].msgs = <<>>, ![n].idx = 0]
    /\ UNCHANGED <<task, heap, wall, cvars, svars, ticks>>

SrcNext(n) == SrcFetch(n) \/ SrcSleep(n) \/ SrcHandle(n) \/ SrcContinue(n)

\* the scheduler runs another task; the one it leaves keeps its place
Schedule ==
    /\ \E t \in Tasks \ {task} : task' = t
    /\ UNCHANGED <<cvars, svars, ivars, ticks>>

\* every Source of the configuration is constructed, with its consumer, and
\* so is the event consumer; the scheduler runs any of the tasks first
ConcInit ==
    /\ task \in Tasks
    /\ Constructed
    /\ \E c \in {NewSources(SourceNames, EmptyMap)} :
         /\ heap = c.heap
         /\ srcs = c.srcs
    /\ wall = 0
    /\ ticks = 0

ConcNext ==
    \/ EventNext
    \/ \E n \in SourceNames : SrcNext(n)
    \/ Schedule

ConcSpec == ConcInit /\ [][ConcNext]_vars

(***************************************************************************)
(* Properties.                                                             *)
(***************************************************************************)
MaxOf(S) == CHOOSE x \in S : \A y \in S : y <= x

\* the ids of the items of a sequence of records with field f
UpdateIDs(us) == {us[i].ID : i \in 1..Len(us)}
MessageIDs(ms) == {ms[i].ID : i \in 1..Len(ms)}

\* a Fetch of this turn has returned without error
EventFetched == cres \in {"empty", "items"}
SourceFetched == sres \in {"empty", "items"}

\* C1: after a Fetch of the event consumer that returned N > 0 events, the
\* offset is one more than the largest update ID of the batch, whatever the
\* order of the batch.
C1_OffsetIsMaxPlusOne ==
    cres = "items" => offset = MaxOf(UpdateIDs(cupdates)) + 1

\* C2: the offset starts at 0 and no step of the event consumer lowers it:
\* in every turn it is at least what it was when the turn's Fetch was called.
C2_OffsetNeverDecreases ==
    /\ offset >= cpre
    /\ cpre >= 0

\* the time a Fetch recorded for id lies between the clock's first and last
\* reading in that Fetch
StampedNow(t, first, last) == first <= t /\ t <= last

\* C3: a Fetch of the source consumer returns no id that an earlier Fetch
\* returned less than 24 hours before (from the time recorded when the id
\* was accepted to the time recorded when it is accepted again), and
\* returns no id twice.
C3_NoReacceptInWindow ==
    [][(spc = "fetch" /\ spc' = "handle") =>
         \A i \in 1..Len(smsgs') :
            /\ smsgs'[i].ID \in DOMAIN accepted =>
                  /\ smsgs'[i].ID \in DOMAIN seen'
                  /\ seen'[smsgs'[i].ID] >= accepted[smsgs'[i].ID] + Expiry
                  /\ now' >= accepted[smsgs'[i].ID] + Expiry
            /\ \A j \in 1..Len(smsgs') : j /= i => smsgs'[j].ID /= smsgs'[i].ID]_vars

\* the candidate's timestamp is missing, unparsable or before startTime
BadTimestamp(c) == c.datetime.fmt /= "rfc3339" \/ c.datetime.h < startTime

\* the candidates of the page that may be behind a change to id's entry
GoodTimed(id) ==
    {i \in 1..Len(spage) : spage[i].id = id /\ ~BadTimestamp(spage[i])}

\* C3 happens: a candidate that passes every other check, and whose id was
\* accepted exactly 24 hours before, is on the page and is not returned.
C3_Witness ==
    /\ SourceFetched
    /\ \E i \in 1..Len(spage) :
         /\ GoodTimed(spage[i].id) /= {}
         /\ ~spage[i].reply
         /\ spage[i].text = TextAd
         /\ spage[i].id \in DOMAIN spre
         /\ now - spre[spage[i].id] = 24
         /\ spage[i].id \notin MessageIDs(smsgs)

\* C4: a candidate whose timestamp is missing, unparsable or before
\* startTime is never returned, and never creates or refreshes an entry of
\* seen: every message returned, and every entry created or changed, comes
\* from a candidate of the page with a good timestamp.
C4_BadTimestampDiscarded ==
    SourceFetched =>
        /\ \A i \in 1..Len(smsgs) : GoodTimed(smsgs[i].ID) /= {}
        /\ \A id \in DOMAIN seen :
              (id \notin DOMAIN spre \/ seen[id] /= spre[id]) => GoodTimed(id) /= {}

\* C4 happens: a candidate posted before startTime, with a matching short
\* text and an id seen holds no entry for, was on the page of a Fetch.
C4_Witness ==
    /\ SourceFetched
    /\ \E i \in 1..Len(spage) :
         /\ spage[i].datetime = Datetime(-1)
         /\ ~spage[i].reply
         /\ spage[i].text = TextAd
         /\ spage[i].id \notin DOMAIN spre
         /\ spage[i].id \notin DOMAIN seen

\* the Process calls made so far are those of the first items of the batch,
\* one each, in order; and once the turn ends, of all of them
Dispatched(pc, idx, batch, done) ==
    /\ Len(done) <= Len(batch)
    /\ \A i \in 1..Len(done) : done[i].item = batch[i]
    /\ pc = "handle" => idx = Len(done) + 1
    /\ pc = "next" => Len(done) = Len(batch)

\* C5: in both loops a failing Process does not stop the batch: the items
\* after it are processed, in order, and the loop goes on to its next turn.
C5_FailureDoesNotStopBatch ==
    /\ cres = "items" => cpc \in {"handle", "next"} /\ Dispatched(cpc, cidx, cevents, cdone)
    /\ sres = "items" => spc \in {"handle", "next"} /\ Dispatched(spc, sidx, smsgs, sdone)

\* C5 happens: the first Process of a batch of two failed and the second
\* event was processed all the same.
C5_Witness ==
    /\ cpc = "next"
    /\ Len(cevents) = 2
    /\ Len(cdone) = 2
    /\ cdone[1].err /= NoError
    /\ cdone[2].err = NoError

\* C6 as claimed: a Fetch that returns no item leaves the offset and seen
\* exactly as they were.
C6_EmptyFetchChangesNothing ==
    /\ cres = "empty" => offset = cpre
    /\ sres = "empty" => seen = spre

\* C6 as amended: a Fetch that returns no item leaves the offset as it was,
\* and creates or refreshes no entry of seen; the one change it makes to
\* seen is the sweep's, which removes entries older than 24 hours and no
\* other.
C6_EmptyFetchOnlySweeps ==
    /\ cres = "empty" => offset = cpre
    /\ sres = "empty" =>
          /\ DOMAIN seen \subseteq DOMAIN spre
          /\ \A id \in DOMAIN seen : seen[id] = spre[id]
          /\ \A id \in DOMAIN spre \ DOMAIN seen : now - spre[id] > 24

\* C6 happens: a Fetch that returned no item removed an entry of seen.
C6_Witness ==
    /\ sres = "empty"
    /\ DOMAIN seen /= DOMAIN spre

\* C7 as claimed: when a Fetch returns, seen holds no entry older than 24
\* hours, whether or not its id was on the page, and holds every entry it
\* had that is not older than 24 hours.
C7_SweepRemovesExactlyExpired ==
    SourceFetched =>
        /\ \A id \in DOMAIN seen : now - seen[id] <= 24
        /\ \A id \in DOMAIN spre : now - spre[id] <= 24 => id \in DOMAIN seen

\* C7 as amended: when a Fetch returns, seen holds no entry that was older
\* than 24 hours when the Fetch began, whether or not its id was on the
\* page, and holds every entry it had that is not older than 24 hours when
\* the sweep ends.  (An entry that passes 24 hours while the Fetch runs is
\* kept if the sweep read the clock for it before and removed if after.)
C7_SweepRemovesExpired ==
    SourceFetched =>
        /\ \A id \in DOMAIN seen : scalled - seen[id] <= 24
        /\ \A id \in DOMAIN spre : now - spre[id] <= 24 => id \in DOMAIN seen

\* C7 happens: of two entries that were 24 hours old when a Fetch began and
\* whose ids were not on its page, the sweep kept the one it read the clock
\* for before the hour changed, now 25 hours old, and removed the other.
C7_Witness ==
    /\ SourceFetched
    /\ \E id \in DOMAIN spre \ DOMAIN seen :
         /\ \A i \in 1..Len(spage) : spage[i].id /= id
         /\ scalled - spre[id] = 24
    /\ \E id \in DOMAIN spre :
         /\ \A i \in 1..Len(spage) : spage[i].id /= id
         /\ id \in DOMAIN seen
         /\ scalled - seen[id] = 24
         /\ now - seen[id] = 25

\* how many steps of the loop separate a place from the next call of Fetch
StepsToFetch(pc, idx, batch) ==
    CASE pc = "fetch" -> 0
      [] pc = "next" -> 1
      [] pc = "sleep" -> 2
      [] pc = "handle" -> 2 + Len(batch) - idx
      [] OTHER -> 3 + Len(batch)

\* C8: Start never returns: whatever Fetch and Process return, neither loop
\* reaches a place other than its fetch, its sleep, its dispatch and the
\* end of a turn; the running loop always has a step to take; and every
\* step it takes away from Fetch brings it nearer to its next call of Fetch.
C8_StartNeverReturns ==
    /\ [](cpc \in {"fetch", "sleep", "handle", "next"})
    /\ [](spc \in {"fetch", "sleep", "handle", "next"})
    /\ [](task = "event" => ENABLED EventNext)
    /\ [](task \in SourceNames => ENABLED SourceNext)
    /\ [][/\ (cpc /= "fetch" =>
                StepsToFetch(cpc', cidx', cevents') < StepsToFetch(cpc, cidx, cevents))
           /\ (spc /= "fetch" =>
                StepsToFetch(spc', sidx', smsgs') < StepsToFetch(spc, sidx, smsgs))]_vars

\* C8 happens: every Process of a batch of two messages failed and the loop
\* is at the end of its turn.
C8_Witness ==
    /\ spc = "next"
    /\ Len(sdone) = 2
    /\ \A i \in 1..Len(sdone) : sdone[i].err /= NoError

\* C9: after a Fetch that failed, the loop neither sleeps nor processes
\* anything: it is at the end of its turn, from where it calls Fetch again.
C9_FetchErrorRetriesAtOnce ==
    /\ [](cres = "err" => cpc = "next" /\ cslept = 0 /\ cdone = <<>> /\ cevents = <<>>)
    /\ [](sres = "err" => spc = "next" /\ sslept = 0 /\ sdone = <<>> /\ smsgs = <<>>)
    /\ [][(cpc = "next" => cpc' = "fetch") /\ (spc = "next" => spc' = "fetch")]_vars

\* C9 happens: the event consumer's Fetch failed.
C9_Witness ==
    /\ cres = "err"
    /\ cpc = "next"

\* C10: after a Fetch that returned no item the loop sleeps its idle
\* interval once (1 second for the event consumer, 10 for the source
\* consumer) and processes nothing; after a Fetch that returned items it
\* does not sleep.
C10_IdleOnlyWhenEmpty ==
    /\ cres = "empty" =>
          /\ cdone = <<>>
          /\ \/ cpc = "sleep" /\ cslept = 0
             \/ cpc = "next" /\ cslept = 1
    /\ sres = "empty" =>
          /\ sdone = <<>>
          /\ \/ spc = "sleep" /\ sslept = 0
             \/ spc = "next" /\ sslept = 10
    /\ cres = "items" => cslept = 0 /\ cpc /= "sleep"
    /\ sres = "items" => sslept = 0 /\ spc /= "sleep"

\* C10 happens: the source consumer slept 10 seconds after an empty Fetch.
C10_Witness ==
    /\ sres = "empty"
    /\ spc = "next"
    /\ sslept = 10

\* the id holds no entry, or one older than 24 hours, when this turn's Fetch
\* begins
Fresh(id) == id \notin DOMAIN spre \/ scalled - spre[id] > 24

\* the candidates of the page under id that pass the timestamp check and
\* whose text (the reply block's next element, if there is one) matches the
\* pattern
Matching(id) ==
    {i \in GoodTimed(id) : MatchString(SearchRegexp, messageText(spage[i]))}

\* C11: the length check counts code points and accepts strictly fewer than
\* 150: an id that is otherwise acceptable is returned exactly when one of
\* its matching candidates has at most 149 code points, however many bytes
\* they take; a text of 150 code points is rejected.
C11_LengthCountsCodePoints ==
    SourceFetched =>
        \A id \in PostIDs :
            Fresh(id) =>
                (id \in MessageIDs(smsgs)
                    <=> \E i \in Matching(id) : Len(messageText(spage[i])) <= 149)

\* C11 happens: the page held a matching text of 150 code points and a
\* matching text of 149 code points that takes more than 150 bytes, and
\* Fetch returned only the second.
C11_Witness ==
    /\ SourceFetched
    /\ Len(spage) = 2
    /\ spage[1].text = TextLong /\ ~spage[1].reply
    /\ spage[2].text = TextWide /\ ~spage[2].reply
    /\ Len(TextLong) = 150 /\ MatchString(SearchRegexp, TextLong)
    /\ Len(TextWide) = 149 /\ RuneCountAsBytes(TextWide) > 150
    /\ Fresh(spage[1].id)
    /\ Len(smsgs) = 1
    /\ smsgs[1].ID = spage[2].id

\* what the configured cleaning makes of the texts that can be accepted,
\* written out: "alerts" removes "[AD] "; "ads" removes "D] A", then "[AD] "
AlertFire == <<"A", "L", "E", "R", "T", ":", " ", "f", "i", "r", "e">>
BracketAlertFire == <<"[">> \o AlertFire
WideAlert == [i \in 1..138 |-> IF i <= 133 THEN "U+0416" ELSE AlertFire[i - 133]]
Cleaned(text) ==
    IF text = TextAd THEN (IF task = "ads" THEN BracketAlertFire ELSE AlertFire)
    ELSE IF text = TextWide THEN WideAlert
    ELSE text

\* C12: the text of a returned message is the accepted candidate's text
\* with every occurrence of every configured phrase removed, phrase after
\* phrase in the configured order, and the result trimmed of surrounding
\* whitespace.  With phrases ["[AD] "] and pattern ALERT, "[AD] ALERT: fire"
\* is emitted as "ALERT: fire".
C12_EmittedTextIsCleaned ==
    SourceFetched =>
        \A k \in 1..Len(smsgs) :
            /\ \E i \in Matching(smsgs[k].ID) :
                  smsgs[k].Text = Cleaned(messageText(spage[i]))
            /\ smsgs[k].Text /= <<>> =>
                  ~IsSpace(smsgs[k].Text[1]) /\ ~IsSpace(smsgs[k].Text[Len(smsgs[k].Text)])
            /\ task = "alerts" => ~MatchString(<<"[", "A", "D", "]", " ">>, smsgs[k].Text)

\* C12 happens: the source configured with phrases ["[AD] "] and pattern
\* ALERT returned "ALERT: fire" for "[AD] ALERT: fire", and the text with a
\* leading blank and two occurrences of the phrase without them.
C12_Witness ==
    /\ task = "alerts"
    /\ PhrasesToRemove = << <<"[", "A", "D", "]", " ">> >>
    /\ SearchRegexp = <<"A", "L", "E", "R", "T">>
    /\ SourceFetched
    /\ Len(spage) = 2 /\ Len(smsgs) = 2
    /\ spage[1].text = TextWide /\ ~spage[1].reply
    /\ spage[2].text = TextAd /\ ~spage[2].reply
    /\ smsgs[1].Text = WideAlert
    /\ smsgs[2].Text = AlertFire

\* C13: the consumers share no mutable state.  With the event consumer's
\* task and the task of every configured source interleaved in any order,
\* a step of the running task (fetch with its sweep, process, sleep) leaves
\* the seen map and the fields of every other Source unchanged, and the
\* offset unchanged unless the event consumer is the one running; and
\* wherever the other tasks stand, at their fetch or in their idle sleep
\* too, the running task can take its next step and the scheduler can run
\* any other task.
C13_ConsumersShareNoState ==
    /\ [](/\ task = "event" => ENABLED EventNext
          /\ \A n \in SourceNames : task = n => ENABLED SrcNext(n)
          /\ \A t \in Tasks \ {task} : ENABLED (task' = t /\ Schedule))
    /\ [][/\ \A m \in SourceNames :
               task /= m => (SeenOf(m)' = SeenOf(m) /\ srcs'[m] = srcs[m])
          /\ task /= "event" => (offset' = offset /\ cvars' = cvars)]_vars

\* C13 happens: all tasks have run.  The source "alerts" recorded the id at
\* hour 25 and is handling its batch, while the source "ads", in its idle
\* sleep, still holds the entry it made for the same id at hour 0, and the
\* event consumer, whose offset has moved, is in its idle sleep too.
C13_Witness ==
    /\ DOMAIN srcs = SourceNames
    /\ task = "alerts"
    /\ srcs["alerts"].pc = "handle"
    /\ "ch/1" \in DOMAIN SeenOf("alerts") /\ SeenOf("alerts")["ch/1"] = 25
    /\ srcs["ads"].pc = "sleep"
    /\ "ch/1" \in DOMAIN SeenOf("ads") /\ SeenOf("ads")["ch/1"] = 0
    /\ cpc = "sleep"
    /\ offset > 0

\* one Process call was made in the step, for the item of the batch that
\* follows those already processed
OneMore(done, done2, batch) ==
    /\ Len(done2) = Len(done) + 1
    /\ Len(done2) <= Len(batch)
    /\ SubSeq(done2, 1, Len(done)) = done
    /\ done2[Len(done2)].item = batch[Len(done2)]

\* C14: for a non-empty batch, Process is called once for each item, one
\* call per step, in the order of the batch, with no retry and no item left
\* out; the loop leaves the batch (and so comes to its next Fetch) only when
\* every item has had its call.
C14_EachItemOnceInOrder ==
    [][/\ (cpc = "handle" => (OneMore(cdone, cdone', cevents) /\ cevents' = cevents))
       /\ ((cpc = "handle" /\ cpc' /= "handle") => (cpc' = "next" /\ Len(cdone') = Len(cevents)))
       /\ ((cres' = "items" /\ cpc = "fetch") => (cpc' = "handle" /\ cdone' = <<>>))
       /\ ((cpc' = "fetch" /\ cpc /= "fetch") => cpc = "next")
       /\ (spc = "handle" => (OneMore(sdone, sdone', smsgs) /\ smsgs' = smsgs))
       /\ ((spc = "handle" /\ spc' /= "handle") => (spc' = "next" /\ Len(sdone') = Len(smsgs)))
       /\ ((sres' = "items" /\ spc = "fetch") => (spc' = "handle" /\ sdone' = <<>>))
       /\ ((spc' = "fetch" /\ spc /= "fetch") => spc = "next")]_vars

\* C14 happens: the source consumer's batch of two is done, each message
\* processed once, in order, the first one's Process having failed.
C14_Witness ==
    /\ spc = "next"
    /\ Len(smsgs) = 2
    /\ Len(sdone) = 2
    /\ sdone[1].item = smsgs[1] /\ sdone[2].item = smsgs[2]
    /\ sdone[1].err /= NoError

\* C15: only a Fetch that succeeds with at least one item changes the
\* offset.  A Fetch whose getUpdates call or decoding failed returns an
\* error and leaves the offset as it was, and no Process call, whether it
\* succeeds or fails, changes the offset.
C15_OnlyFetchWithItemsMovesOffset ==
    /\ [](cfail /= NoError => (cres = "err" /\ offset = cpre))
    /\ [][/\ (offset' /= offset => (cpc = "fetch" /\ cres' = "items" /\ cfail' = NoError))
          /\ (cdone' /= cdone => offset' = offset)]_vars

\* C15 happens: the body of getUpdates did not decode, Fetch returned the
\* error, and the offset an earlier Fetch had moved is still in place.
C15_Witness ==
    /\ cfail = DecodeFailed
    /\ cres = "err"
    /\ offset > 0
    /\ offset = cpre

\* C16: Process on an event that is not a message returns the "unknown
\* event type" error and sends nothing; the loop goes on with the next item
\* of the batch; and the offset is already past that item's update ID, so
\* that it is not fetched again.
C16_UnknownKindIsSkippedForGood ==
    \A i \in 1..Len(cdone) :
        cdone[i].item.Type /= Message =>
            /\ cdone[i].err = <<"can't process event", "unknown event type">>
            /\ cdone[i].sent = <<>>
            /\ (i < Len(cevents) => (cpc = "handle" \/ Len(cdone) > i))
            /\ offset > cupdates[i].ID

\* C17: an id that was accepted before, and whose entry has since been
\* purged or is more than 24 hours old when the Fetch begins, is new again:
\* when it comes back on a candidate that passes the other checks, Fetch
\* returns it and sets its entry to the current time (what the clock shows
\* while this Fetch runs), from which the 24 hours count anew.
C17_ExpiredIdIsNewAgain ==
    [][(spc = "fetch" /\ sres' \in {"empty", "items"}) =>
         \A id \in DOMAIN accepted :
            (/\ (id \notin DOMAIN seen \/ scalled' - seen[id] > 24)
             /\ \E i \in Matching(id)' : Len(messageText(spage'[i])) < 150)
            => (/\ id \in MessageIDs(smsgs')
                /\ id \in DOMAIN seen'
                /\ StampedNow(seen'[id], scalled', now')
                /\ accepted'[id] = seen'[id])]_vars

\* C17 happens: Fetch returned an id whose entry, more than 24 hours old,
\* was still in the map (no sweep had run since), and set the entry to the
\* current time.
C17_Witness ==
    /\ SourceFetched
    /\ \E id \in DOMAIN spre :
         /\ scalled - spre[id] > 24
         /\ id \in MessageIDs(smsgs)
         /\ StampedNow(seen[id], scalled, now)

\* the text passes the pattern match and the length check as it stands
PassesAsIs(text) == MatchString(SearchRegexp, text) /\ Len(text) < 150

\* C18: the pattern match and the length check read the text as found (the
\* reply block's next element, if there is one) before any cleaning, and
\* only an accepted text is cleaned: an id that is otherwise acceptable is
\* returned exactly when one of its candidates passes both checks as it
\* stands, whatever its cleaned text would do, and the text returned is the
\* cleaned text of such a candidate.
C18_ChecksReadUncleanedText ==
    SourceFetched =>
        /\ \A id \in PostIDs :
              Fresh(id) =>
                  (id \in MessageIDs(smsgs)
                      <=> \E i \in GoodTimed(id) :
                             PassesAsIs(IF spage[i].reply THEN spage[i].replyText
                                        ELSE spage[i].text))
        /\ \A k \in 1..Len(smsgs) :
              \E i \in GoodTimed(smsgs[k].ID) :
                  LET text == IF spage[i].reply THEN spage[i].replyText ELSE spage[i].text
                  IN  PassesAsIs(text) /\ smsgs[k].Text = Cleaned(text)

\* C18 happens: of two candidates with fresh ids, the one with 150 code
\* points was rejected although its cleaned text matches and is shorter,
\* and the one that matches was returned although the cleaned text it was
\* returned with does not match.
C18_Witness ==
    /\ SourceFetched
    /\ Len(spage) = 2
    /\ spage[1].text = TextLong /\ ~spage[1].reply
    /\ Fresh(spage[1].id)
    /\ cleanMessage(TextLong) = SubSeq(TextLong, 6, 150)
    /\ PassesAsIs(SubSeq(TextLong, 6, 150))
    /\ spage[1].id \notin MessageIDs(smsgs)
    /\ spage[2].text = TextAd /\ ~spage[2].reply
    /\ Len(smsgs) = 1
    /\ smsgs[1].ID = spage[2].id
    /\ ~MatchString(SearchRegexp, smsgs[1].Text)

\* C19: a Fetch of the source consumer that returns an error, the page not
\* retrieved or not parsed, leaves seen exactly as it was: nothing is added,
\* nothing refreshed and nothing swept, so an entry older than 24 hours is
\* still there afterwards.
C19_FailedFetchLeavesSeenAlone ==
    /\ sfail /= NoError =>
          /\ sres = "err"
          /\ seen = spre
          /\ smsgs = <<>>
    /\ sres = "err" => sfail /= NoError

\* C19 happens: the page could not be parsed, and the entry that had
\* outlived its 24 hours when Fetch was called is still in seen.
C19_Witness ==
    /\ sres = "err"
    /\ sfail = <<"read">>
    /\ \E id \in DOMAIN seen : now - seen[id] > 24

\* C20: what a Fetch returns is committed before the first Process call:
\* while a batch is being handled, the offset is past the update ID of every
\* event of the batch, and every message of the batch has its id in seen
\* with a time read while this Fetch ran; so an item whose Process fails is not asked
\* for again, and is not returned again for 24 hours.
C20_CommittedBeforeProcessing ==
    /\ cres = "items" => \A i \in 1..Len(cupdates) : offset > cupdates[i].ID
    /\ sres = "items" =>
          \A k \in 1..Len(smsgs) :
              /\ smsgs[k].ID \in DOMAIN seen
              /\ StampedNow(seen[smsgs[k].ID], scalled, now)

\* C21: seen is empty at construction, and every key it holds is an id that
\* an earlier Fetch of this source returned, with the time recorded by the
\* last Fetch that returned it: a candidate discarded by the timestamp, pattern, length
\* or dedup check creates no entry and refreshes none, and only a Fetch adds
\* or changes entries, for ids it returns.
C21_SeenHoldsOnlyReturnedIds ==
    /\ seen = EmptyMap
    /\ [](\A id \in DOMAIN seen : id \in DOMAIN accepted /\ seen[id] = accepted[id])
    /\ [][\A id \in DOMAIN seen' :
             (id \notin DOMAIN seen \/ seen'[id] /= seen[id])
             => /\ spc = "fetch"
                /\ id \in MessageIDs(smsgs')
                /\ StampedNow(seen'[id], scalled', now')]_vars

\* C21 happens: a Fetch read a candidate suppressed as a duplicate, whose
\* entry kept its earlier time, and a candidate discarded by the pattern
\* check, whose id has no entry.
C21_Witness ==
    /\ SourceFetched
    /\ Len(spage) = 2
    /\ smsgs = <<>>
    /\ spage[1].text = TextAd /\ ~spage[1].reply /\ ~BadTimestamp(spage[1])
    /\ spage[1].id \in DOMAIN seen
    /\ seen[spage[1].id] < now
    /\ seen[spage[1].id] = accepted[spage[1].id]
    /\ spage[2].text = TextPlain /\ ~spage[2].reply /\ ~BadTimestamp(spage[2])
    /\ spage[2].id \notin DOMAIN seen

====
